---- MODULE Spec2Model ----
(***************************************************************************)
(* Model of the migration engine of database/scripts/db.ts: the migration  *)
(* directory, the schema_migrations ledger, and the CLI operations         *)
(* migrate:up, migrate:down, migrate:status and migrate:debug, each run by *)
(* a CLI process that issues one psql command at a time.                   *)
(*                                                                         *)
(* Strings are sequences of character codes (ASCII), so that sorting,      *)
(* endsWith, replace and trim are computed as JavaScript computes them.    *)
(* A migration file's content is a sequence of tokens: the two texts the   *)
(* regular expression /-- (UP|DOWN)/i matches, whitespace, and other text. *)
(* The database is assumed to order versions by code unit (C collation).   *)
(* The temp directory holds the SQL files runMigration writes; the name of  *)
(* such a file carries the direction and the millisecond of its creation.  *)
(* File system calls are taken to succeed, every psql command may fail.    *)
(***************************************************************************)
EXTENDS Naturals, Integers, Sequences, FiniteSets, TLC

VARIABLES
  dir,          \* names of the entries of database/migrations
  content,      \* content of each entry (token sequence)
  tableExists,  \* does the table schema_migrations exist
  ledger,       \* rows of schema_migrations, in insertion order (version strings)
  schema,       \* migration files whose UP SQL is in effect in the database
  temp,         \* the files of <cwd>/temp: path -> the SQL written to it
  runners,      \* the CLI processes that exist
  ops,          \* the operations the processes are asked to run
  run,          \* per process: the state of its current operation
  prev,         \* per process: summary of its previous, finished operation
  invLeft,      \* number of operations that may still be started
  dirExists,    \* does the directory database/migrations exist
  dbFiles,      \* the schema and seed files that exist under database/
  created,      \* entities whose schema file has been executed: their tables exist
  seeded        \* entities whose seed file has been executed since their table was created

\* the entity files and the entity tables
entityVars == <<dbFiles, created, seeded>>

vars ==
  <<dir, content, tableExists, ledger, schema, temp, runners, ops, run, prev, invLeft,
    dirExists, entityVars>>

---------------------------------------------------------------------------
(* Bounds of the model *)

MaxFiles == 3

MaxInvocations == 3

MaxConcFiles == 1

MaxConcInvocations == 2

MaxSectionFiles == 1

MaxSectionInvocations == 2

MaxInterruptFiles == 2

MaxInterruptInvocations == 2

\* the directory holding other entries than well-named migration files
MaxEntries == 3

MaxEntryInvocations == 2

\* successive rollbacks of a ledger that holds every file
MaxDownFiles == 3

MaxDownInvocations == 4

\* the command line with every operation
MaxCliFiles == 1

MaxCliInvocations == 1

\* clean, reset and setup followed by migrations
MaxAdminFiles == 2

MaxAdminInvocations == 2

AllRunners == {1, 2}

---------------------------------------------------------------------------
(* Strings *)

\* '.sql'
DotSql == <<46, 115, 113, 108>>

\* 'a.sql'
FileA == <<97>> \o DotSql

\* 'a-b.sql': sorts before 'a.sql' as a filename, after 'a' as a version
FileAB == <<97, 45, 98>> \o DotSql

\* 'b.sql'
FileB == <<98>> \o DotSql

FileNames == {FileA, FileAB, FileB}

\* 'a.sqlb.sql' and 'ab.sql.sql': migration files with '.sql' inside the name
FileInner == <<97, 46, 115, 113, 108, 98, 46, 115, 113, 108>>

FileDouble == <<97, 98, 46, 115, 113, 108, 46, 115, 113, 108>>

\* 'a.txt' and 'a.sql.bak': entries of the directory that are no migration files
FileText == <<97, 46, 116, 120, 116>>

FileBak == <<97, 46, 115, 113, 108, 46, 98, 97, 107>>

EntryNames == {FileA, FileInner, FileDouble, FileText, FileBak}

Min(a, b) == IF a < b THEN a ELSE b

\* JavaScript's default string comparison: by code unit, a proper prefix first
StrLess(a, b) ==
  \/ \E i \in 1..Min(Len(a), Len(b)) :
        /\ a[i] < b[i]
        /\ \A j \in 1..(i - 1) : a[j] = b[j]
  \/ /\ Len(a) < Len(b)
     /\ \A j \in 1..Len(a) : a[j] = b[j]

RECURSIVE SortStrings(_)
\* Array.prototype.sort() on strings, and ORDER BY version
SortStrings(S) ==
  IF S = {} THEN <<>>
  ELSE LET m == CHOOSE x \in S : \A y \in S \ {x} : StrLess(x, y)
       IN <<m>> \o SortStrings(S \ {m})

\* String.prototype.endsWith
EndsWith(s, suf) ==
  /\ Len(s) >= Len(suf)
  /\ SubSeq(s, Len(s) - Len(suf) + 1, Len(s)) = suf

\* String.prototype.indexOf, 1-based, 0 when absent
IndexOf(s, pat) ==
  LET hits == {i \in 1..(Len(s) + 1) :
                 /\ i + Len(pat) - 1 <= Len(s)
                 /\ SubSeq(s, i, i + Len(pat) - 1) = pat}
  IN IF hits = {} THEN 0 ELSE CHOOSE i \in hits : \A j \in hits : i <= j

\* s.replace(pat, ''): removes the FIRST occurrence of pat
RemoveFirst(s, pat) ==
  LET i == IndexOf(s, pat)
  IN IF i = 0 THEN s
     ELSE SubSeq(s, 1, i - 1) \o SubSeq(s, i + Len(pat), Len(s))

\* migrationFile.replace('.sql', '')
VersionOf(file) == RemoveFirst(file, DotSql)

\* the characters trim() removes (space, tab, line ends)
IsSpace(c) == c <= 32

RECURSIVE TrimLeft(_)
TrimLeft(s) ==
  IF s # <<>> /\ IsSpace(Head(s)) THEN TrimLeft(Tail(s)) ELSE s

RECURSIVE TrimRight(_)
TrimRight(s) ==
  IF s # <<>> /\ IsSpace(s[Len(s)]) THEN TrimRight(SubSeq(s, 1, Len(s) - 1)) ELSE s

\* String.prototype.trim on a character string
Trim(s) == TrimLeft(TrimRight(s))

RECURSIVE InsertSorted(_, _)
InsertSorted(sorted, x) ==
  IF sorted = <<>> THEN <<x>>
  ELSE IF StrLess(x, Head(sorted)) THEN <<x>> \o sorted
  ELSE <<Head(sorted)>> \o InsertSorted(Tail(sorted), x)

RECURSIVE SortRows(_)
\* ORDER BY version over the rows of the ledger (every row is returned)
SortRows(rows) ==
  IF rows = <<>> THEN <<>> ELSE InsertSorted(SortRows(Tail(rows)), Head(rows))

\* psql -t prints each value on a line of its own behind one space, then an
\* empty line; the result is the sequence of lines of stdout
PsqlLines(values) ==
  [i \in 1..(Len(values) + 1) |->
     IF i <= Len(values) THEN <<32>> \o values[i] ELSE <<>>]

\* result.split('\n').filter((line) => line.trim()).map((line) => line.trim())
ParseLines(lines) ==
  LET NonBlank(line) == Trim(line) # <<>>
      kept == SelectSeq(lines, NonBlank)
  IN [i \in 1..Len(kept) |-> Trim(kept[i])]

Range(s) == {s[i] : i \in 1..Len(s)}

---------------------------------------------------------------------------
(* Migration file content and section extraction *)

\* Tokens of a file's content: "--UP" and "--DOWN" are the texts the pattern
\* /-- (UP|DOWN)/i matches, "ws" is whitespace, the others are SQL or comment
\* text without a match in it.
ContentFull == <<"hdr", "ws", "--UP", "ws", "upsql", "ws", "--DOWN", "ws", "downsql", "ws">>

ContentNoDown == <<"hdr", "ws", "--UP", "ws", "upsql", "ws">>

ContentEmptyUp == <<"--UP", "ws", "--DOWN", "ws", "downsql">>

ContentNoMarkers == <<"upsql", "ws">>

ContentKinds == {ContentFull, ContentNoDown, ContentEmptyUp, ContentNoMarkers}

\* a file with sections whose last line is the comment '-- Downgrade ...':
\* the pattern matches the beginning of the comment
ContentDownNote == <<"--UP", "ws", "upsql", "ws", "--DOWN", "note", "ws">>

\* a file with sections behind the header comment '-- Updated ...'
ContentUpdateHeader ==
  <<"--UP", "date", "ws", "--UP", "ws", "upsql", "ws", "--DOWN", "ws", "downsql", "ws">>

\* a file whose UP section holds the comment '-- Update ...' between two statements
ContentUpdateInside ==
  <<"--UP", "ws", "upsql", "ws", "--UP", "date", "ws", "upsql2", "ws",
    "--DOWN", "ws", "downsql", "ws">>

\* a file without markers that begins with the comment '-- Update ...'
ContentLegacyUpdate == <<"--UP", "date", "ws", "upsql", "ws">>

\* a file without UP marker whose statements are followed by a DOWN section
ContentDownOnly == <<"upsql", "ws", "--DOWN", "ws", "downsql", "ws">>

\* the contents the specification of the section extraction starts from
SectionContentKinds ==
  {ContentFull, ContentNoDown, ContentNoMarkers, ContentDownNote, ContentUpdateHeader,
   ContentUpdateInside, ContentLegacyUpdate, ContentDownOnly}

\* the contents the two-process specification starts from
ConcContentKinds == {ContentFull}

IsMarker(tok) == tok \in {"--UP", "--DOWN"}

\* the text the capture group (UP|DOWN) holds for a match
Captured(tok) == IF tok = "--UP" THEN "UP" ELSE "DOWN"

RECURSIVE SplitFrom(_, _)
\* content.split(/-- (UP|DOWN)/i) continued: acc is the text collected since the
\* last match; a match closes it and is followed by its captured group
SplitFrom(toks, acc) ==
  IF toks = <<>> THEN <<acc>>
  ELSE IF IsMarker(Head(toks))
       THEN <<acc, <<Captured(Head(toks))>>>> \o SplitFrom(Tail(toks), <<>>)
       ELSE SplitFrom(Tail(toks), Append(acc, Head(toks)))

\* content.split(/-- (UP|DOWN)/i): texts and captured groups alternate
Split(toks) == SplitFrom(toks, <<>>)

RECURSIVE TrimToksLeft(_)
TrimToksLeft(t) ==
  IF t # <<>> /\ Head(t) = "ws" THEN TrimToksLeft(Tail(t)) ELSE t

RECURSIVE TrimToksRight(_)
TrimToksRight(t) ==
  IF t # <<>> /\ t[Len(t)] = "ws" THEN TrimToksRight(SubSeq(t, 1, Len(t) - 1)) ELSE t

\* String.prototype.trim on a text of tokens
TrimToks(t) == TrimToksLeft(TrimToksRight(t))

\* parts.findIndex((part) => part.trim().toUpperCase() === word), 1-based, 0 for -1
FindIndex(parts, word) ==
  LET hits == {i \in 1..Len(parts) : TrimToks(parts[i]) = <<word>>}
  IN IF hits = {} THEN 0 ELSE CHOOSE i \in hits : \A j \in hits : i <= j

\* parts[i], the empty text standing for undefined (both are falsy)
PartAt(parts, i) == IF i <= Len(parts) THEN parts[i] ELSE <<>>

\* The section runMigration extracts: err is "none", "nodown" (no DOWN section
\* found) or "empty" (no SQL found); sql is the text written to the temp file.
ExtractSection(toks, direction) ==
  LET parts == Split(toks)
      upIndex == FindIndex(parts, "UP")
      downIndex == FindIndex(parts, "DOWN")
      sql == IF direction = "up"
             THEN (IF upIndex # 0 THEN PartAt(parts, upIndex + 1) ELSE toks)
             ELSE PartAt(parts, downIndex + 1)
  IN IF direction = "down" /\ downIndex = 0
       THEN [err |-> "nodown", sql |-> <<>>]
     ELSE IF TrimToks(sql) = <<>>
       THEN [err |-> "empty", sql |-> <<>>]
     ELSE [err |-> "none", sql |-> TrimToks(sql)]

---------------------------------------------------------------------------
(* Migration File Store and Ledger *)

RECURSIVE Reverse(_)
Reverse(seq) == IF seq = <<>> THEN <<>> ELSE Append(Reverse(Tail(seq)), Head(seq))

\* getMigrationFiles without a working sort(): the files come in another order
getMigrationFiles_Unsorted(d) == Reverse(SortStrings({f \in d : EndsWith(f, DotSql)}))

\* getMigrationFiles: readdirSync(...).filter(endsWith('.sql')).sort()
\* a listing without the filter on the extension
getMigrationFiles_Unfiltered(d) == SortStrings(d)

getMigrationFiles(d) == SortStrings({f \in d : EndsWith(f, DotSql)})

\* stdout of SELECT version FROM schema_migrations ORDER BY version, parsed
\* a ledger read without ORDER BY: the rows in the order of their insertion
ReadApplied_Unordered(rows) == ParseLines(PsqlLines(rows))

ReadApplied(rows) == ParseLines(PsqlLines(SortRows(rows)))

\* an INSERT without ON CONFLICT on a table without the UNIQUE constraint
InsertOrIgnore_Plain(rows, v) == Append(rows, v)

\* INSERT INTO schema_migrations (version) VALUES (v) ON CONFLICT (version) DO NOTHING
InsertOrIgnore(rows, v) == IF v \in Range(rows) THEN rows ELSE Append(rows, v)

\* a DELETE whose WHERE clause matches no row
DeleteVersion_None(rows, v) == rows

\* DELETE FROM schema_migrations WHERE version = v
DeleteVersion(rows, v) ==
  LET Other(x) == x # v IN SelectSeq(rows, Other)

\* instanceof DatabaseError | NotFoundError | ValidationError | ConfigurationError
isCustomError(e) ==
  e \in {"DatabaseError", "NotFoundError", "ValidationError", "ConfigurationError"}

---------------------------------------------------------------------------
(* One CLI process running one operation *)

Ops == {"up", "down", "status", "debug"}

\* what migrate:status and migrate:debug print; nothing is printed yet
NoReport ==
  [kind |-> "none", listed |-> <<>>, appliedCount |-> 0, pendingCount |-> 0,
   lastVersion |-> <<>>, lastFile |-> <<>>, orphanedFiles |-> <<>>,
   orphanedRecords |-> <<>>]

\* process.argv.slice(2) of a process that was given no argument: "" stands
\* for undefined
NoArgv == <<"", "">>

\* A process that has started nothing.  pc names the psql command in flight;
\* exit is the exit status, -1 while the process has not ended.
IdleRun ==
  [pc |-> "idle", op |-> "none", allMigrations |-> <<>>, pending |-> <<>>,
   idx |-> 0, cur |-> <<>>, sql |-> <<>>, ncmd |-> 0, result |-> "none",
   failedAt |-> "none", readFailed |-> FALSE, evLog |-> <<>>, startLedger |-> <<>>,
   startTable |-> FALSE, startSchema |-> {}, now |-> 0, tempFile |-> <<>>,
   lastOut |-> [error |-> FALSE, stderr |-> FALSE], report |-> NoReport,
   argv |-> NoArgv, plan |-> <<>>, todo |-> {}, usage |-> FALSE, exit |-> -1]

NoPrev == [op |-> "none", result |-> "none", failedAt |-> "none",
           startLedger |-> <<>>, pending |-> <<>>, pc |-> "idle", cur |-> <<>>]

\* a main whose catch block does not set the exit status
Fail_ExitZero(s, kind, at) ==
  [s EXCEPT !.pc = "done", !.result = kind, !.failedAt = at, !.exit = 0]

\* the operation throws: main logs the error and exits with status 1
Fail(s, kind, at) ==
  [s EXCEPT !.pc = "done", !.result = kind, !.failedAt = at, !.exit = 1]

\* the operation returns normally and main with it: the process ends with
\* status 0
Finish(s) == [s EXCEPT !.pc = "done", !.result = "ok", !.exit = 0]

\* runCommand(cmd) is called: one external process is spawned
Issue(s, cmd) == [s EXCEPT !.pc = cmd, !.ncmd = @ + 1]

\* path.join(tempDir, `migration_${direction}_${Date.now()}.sql`)
TempPath(direction, now) == <<direction, now>>

\* a runMigration without the check for an empty section
runMigrationBegin_NoEmptyCheck(s, d, c, file, direction) ==
  IF file \notin d THEN Fail(s, "NotFoundError", "file")
  ELSE LET x == ExtractSection(c[file], direction)
       IN IF x.err = "nodown" THEN Fail([s EXCEPT !.cur = file], "ValidationError", x.err)
          ELSE Issue([s EXCEPT !.cur = file, !.sql = x.sql,
                               !.tempFile = TempPath(direction, s.now)], "exec")

\* runMigration up to its first command: existence check, section extraction,
\* name of the temp file (s.now is what Date.now() returns), then psql -f on
\* the temp file
runMigrationBegin(s, d, c, file, direction) ==
  IF file \notin d THEN Fail(s, "NotFoundError", "file")
  ELSE LET x == ExtractSection(c[file], direction)
       IN IF x.err # "none" THEN Fail([s EXCEPT !.cur = file], "ValidationError", x.err)
          ELSE Issue([s EXCEPT !.cur = file, !.sql = x.sql,
                               !.tempFile = TempPath(direction, s.now)], "exec")

\* a migrateUp that looks the file name, not the version, up in the applied list
migrateUpAfterApplied_ByName(s, applied, d, c) ==
  LET IsPending(m) == m \notin Range(applied)
      pendingMigrations == SelectSeq(s.allMigrations, IsPending)
      s1 == [s EXCEPT !.pending = pendingMigrations, !.idx = 1]
  IN IF Len(pendingMigrations) = 0 THEN Finish(s1)
     ELSE runMigrationBegin(s1, d, c, pendingMigrations[1], "up")

\* migrateUp after getAppliedMigrations returned
migrateUpAfterApplied(s, applied, d, c) ==
  LET IsPending(m) == VersionOf(m) \notin Range(applied)
      pendingMigrations == SelectSeq(s.allMigrations, IsPending)
      s1 == [s EXCEPT !.pending = pendingMigrations, !.idx = 1]
  IN IF Len(pendingMigrations) = 0 THEN Finish(s1)
     ELSE runMigrationBegin(s1, d, c, pendingMigrations[1], "up")

\* a lookup that falls back to the last file when no file has the version
FindFile_Fallback(files, version) ==
  LET hits == {i \in 1..Len(files) : VersionOf(files[i]) = version}
  IN IF hits # {} THEN files[CHOOSE i \in hits : \A j \in hits : i <= j]
     ELSE IF files = <<>> THEN <<>> ELSE files[Len(files)]

\* allMigrationFiles.find((file) => file.replace('.sql', '') === version);
\* <<>> stands for undefined
FindFile(files, version) ==
  LET hits == {i \in 1..Len(files) : VersionOf(files[i]) = version}
  IN IF hits = {} THEN <<>>
     ELSE files[CHOOSE i \in hits : \A j \in hits : i <= j]

\* a migrateDown without the early return on an empty list of applied versions
migrateDownAfterApplied_NoGuard(s, applied, d, c) ==
  LET allMigrationFiles == getMigrationFiles(d)
      lastAppliedVersion == IF applied = <<>> THEN <<>> ELSE applied[Len(applied)]
      lastMigrationFile == FindFile(allMigrationFiles, lastAppliedVersion)
      s1 == [s EXCEPT !.allMigrations = allMigrationFiles]
  IN IF lastMigrationFile = <<>>
       THEN Fail(s1, "NotFoundError", "rollbackfile")
     ELSE runMigrationBegin(s1, d, c, lastMigrationFile, "down")

\* a migrateDown that takes appliedMigrations[0] as the last applied version
migrateDownAfterApplied_First(s, applied, d, c) ==
  IF Len(applied) = 0 THEN Finish(s)
  ELSE LET allMigrationFiles == getMigrationFiles(d)
           lastMigrationFile == FindFile(allMigrationFiles, applied[1])
           s1 == [s EXCEPT !.allMigrations = allMigrationFiles]
       IN IF lastMigrationFile = <<>>
            THEN Fail(s1, "NotFoundError", "rollbackfile")
          ELSE runMigrationBegin(s1, d, c, lastMigrationFile, "down")

\* migrateDown after getAppliedMigrations returned
migrateDownAfterApplied(s, applied, d, c) ==
  IF Len(applied) = 0 THEN Finish(s)
  ELSE LET allMigrationFiles == getMigrationFiles(d)
           lastAppliedVersion == applied[Len(applied)]
           lastMigrationFile == FindFile(allMigrationFiles, lastAppliedVersion)
           s1 == [s EXCEPT !.allMigrations = allMigrationFiles]
       IN IF lastMigrationFile = <<>>
            THEN Fail(s1, "NotFoundError", "rollbackfile")
          ELSE runMigrationBegin(s1, d, c, lastMigrationFile, "down")

\* migrationStatus after getAppliedMigrations returned: one line per file, then
\* the summary; pendingCount = allMigrations.length - appliedMigrations.length
migrationStatusAfterApplied(s, applied) ==
  IF Len(s.allMigrations) = 0
  THEN Finish([s EXCEPT !.report = [NoReport EXCEPT !.kind = "nofiles"]])
  ELSE LET statusData == [i \in 1..Len(s.allMigrations) |->
                            [file |-> s.allMigrations[i],
                             applied |-> VersionOf(s.allMigrations[i]) \in Range(applied)]]
       IN Finish([s EXCEPT !.report =
                    [NoReport EXCEPT !.kind = "status", !.listed = statusData,
                                     !.appliedCount = Len(applied),
                                     !.pendingCount = Len(s.allMigrations) - Len(applied)]])

\* a debug that reports every applied version as an orphaned record
debugMigrationsAfterApplied_AllOrphaned(s, applied) ==
  LET IsOrphanedFile(file) == VersionOf(file) \notin Range(applied)
  IN Finish([s EXCEPT !.report =
               [NoReport EXCEPT
                  !.kind = "debug",
                  !.lastVersion = IF applied = <<>> THEN <<>> ELSE applied[Len(applied)],
                  !.lastFile = IF applied = <<>> THEN <<>>
                               ELSE FindFile(s.allMigrations, applied[Len(applied)]),
                  !.orphanedFiles = SelectSeq(s.allMigrations, IsOrphanedFile),
                  !.orphanedRecords = applied]])

\* debugMigrations after getAppliedMigrations returned: the last applied
\* version and its file, the files not applied, the versions without a file
debugMigrationsAfterApplied(s, applied) ==
  LET IsOrphanedFile(file) == VersionOf(file) \notin Range(applied)
      IsOrphanedRecord(version) == FindFile(s.allMigrations, version) = <<>>
  IN Finish([s EXCEPT !.report =
               [NoReport EXCEPT
                  !.kind = "debug",
                  !.lastVersion = IF applied = <<>> THEN <<>> ELSE applied[Len(applied)],
                  !.lastFile = IF applied = <<>> THEN <<>>
                               ELSE FindFile(s.allMigrations, applied[Len(applied)]),
                  !.orphanedFiles = SelectSeq(s.allMigrations, IsOrphanedFile),
                  !.orphanedRecords = SelectSeq(applied, IsOrphanedRecord)]])

\* the caller of getAppliedMigrations continues with its result
AfterApplied(s, applied, d, c) ==
  CASE s.op = "up" -> migrateUpAfterApplied(s, applied, d, c)
    [] s.op = "down" -> migrateDownAfterApplied(s, applied, d, c)
    [] s.op = "status" -> migrationStatusAfterApplied(s, applied)
    [] s.op = "debug" -> debugMigrationsAfterApplied(s, applied)
    [] OTHER -> Finish(s)

\* the catch block of getAppliedMigrations: a custom error is re-thrown, any
\* other error is logged and the empty list returned
getAppliedMigrationsCatch(s, error, at, d, c) ==
  LET s1 == [s EXCEPT !.readFailed = TRUE]
  IN IF isCustomError(error) THEN Fail(s1, error, at)
     ELSE AfterApplied(s1, <<>>, d, c)

\* a catch block of runMigration that logs a failed SQL execution and goes on
\* to record the version
runMigrationCatch_Continue(s, error, at) ==
  IF at = "exec" /\ s.op = "up" THEN Issue(s, "insert") ELSE Fail(s, "DatabaseError", at)

\* a catch block of runMigration that runs a failed command once more
runMigrationCatch_Retry(s, error, at) ==
  IF s.ncmd < 12 /\ s.pc = at THEN Issue(s, at) ELSE Fail(s, "DatabaseError", at)

\* the catch block of runMigration: every error leaves it as a custom error
runMigrationCatch(s, error, at) ==
  IF isCustomError(error) THEN Fail(s, error, at)
  ELSE Fail(s, "DatabaseError", at)

\* migrateUp after runMigration(migration, 'up') returned: the next pending one
migrateUpNext(s, d, c) ==
  IF s.idx = Len(s.pending) THEN Finish(s)
  ELSE runMigrationBegin([s EXCEPT !.idx = @ + 1], d, c, s.pending[s.idx + 1], "up")

SqlEvent(s) == [kind |-> "sql", file |-> s.cur, direction |-> s.op, sql |-> s.sql]

LedgerEvent(kind, s) == [kind |-> kind, file |-> s.cur, direction |-> s.op, sql |-> <<>>]

Summary(s) ==
  [op |-> s.op, result |-> s.result, failedAt |-> s.failedAt,
   startLedger |-> s.startLedger, pending |-> s.pending, pc |-> s.pc, cur |-> s.cur]

---------------------------------------------------------------------------
(* The Command Executor and the temp directory *)

\* What the external process of a command reports to exec's callback: error is
\* set on a non-zero exit status, stderr is non-empty.  A failing command may
\* or may not have written to stderr; a succeeding psql writes a NOTICE there
\* when notice.
Outcomes(canSucceed, notice) ==
  {[error |-> TRUE, stderr |-> b] : b \in BOOLEAN} \cup
  (IF canSucceed THEN {[error |-> FALSE, stderr |-> notice]} ELSE {})

\* an executor that takes output on stderr for a failure
runCommand_StderrFails(out) == IF out.error \/ out.stderr THEN "reject" ELSE "resolve"

\* runCommand: if (error) { reject(dbError); return; } if (stderr) warn; resolve(stdout)
runCommand(out) == IF out.error THEN "reject" ELSE "resolve"

\* the process is inside the try block of runMigration
RunsMigration(s) == s.pc \in {"exec", "insert", "verify", "delete"}

\* the step from s0 to s1 entered the try block of a runMigration call
Began(s0, s1) == s1.pc = "exec" /\ s0.pc # "exec"

\* the step from s0 to s1 left the runMigration call s0 was in
Left(s0, s1) == RunsMigration(s0) /\ (~RunsMigration(s1) \/ Began(s0, s1))

\* a cleanup that is skipped when the migration failed
runMigrationFinally_OnSuccess(t, s0, s1) ==
  IF s1.failedAt # "none" THEN t ELSE [p \in DOMAIN t \ {s0.tempFile} |-> t[p]]

\* finally { if (fs.existsSync(tempFile)) { fs.unlinkSync(tempFile) } }
runMigrationFinally(t, s0, s1) == [p \in DOMAIN t \ {s0.tempFile} |-> t[p]]

\* fs.writeFileSync(tempFile, sql.trim()): creates or overwrites the file
writeFileSync(t, s) ==
  [p \in DOMAIN t \cup {s.tempFile} |->
     IF p = s.tempFile THEN [cur |-> s.cur, op |-> s.op, sql |-> s.sql] ELSE t[p]]

\* the temp directory after the step of a process from s0 to s1
TempAfter(t, s0, s1) ==
  LET t1 == IF Left(s0, s1) THEN runMigrationFinally(t, s0, s1) ELSE t
  IN IF Began(s0, s1) THEN writeFileSync(t1, s1) ELSE t1

\* the timestamps of the temp files process r has to reckon with
UsedStamps(r) ==
  {p[2] : p \in DOMAIN temp \ {run[r].tempFile}} \cup
  {run[q].tempFile[2] : q \in {x \in runners \ {r} : run[x].tempFile # <<>>}}

\* What Date.now() can return to process r: the millisecond in which another
\* process named its temp file, as long as the first command of that process
\* is in flight, or a later millisecond.  Later milliseconds are all alike:
\* the least timestamp no temp file carries stands for them.
NowChoices(r) ==
  {run[q].tempFile[2] : q \in {x \in runners \ {r} : run[x].pc = "exec"}} \cup
  {CHOOSE n \in 0..Cardinality(UsedStamps(r)) :
     n \notin UsedStamps(r) /\ \A m \in 0..(n - 1) : m \in UsedStamps(r)}

---------------------------------------------------------------------------
(* The entities *)

\* entities: foods, users, recipes in the order of their declaration; the
\* entry 'all' has no files
Entities == <<"foods", "users", "recipes">>

\* the schema file or the seed file of an entity
EntityFile(kind, entity) == <<kind, entity>>

EntityFiles == {EntityFile(kind, Entities[i]) : kind \in {"schema", "seed"}, i \in 1..Len(Entities)}

\* the tables of the schema public: the ledger table, the tables of the
\* entities, the tables the migrations in effect have created
Tables(te, sch, cr) ==
  (IF te THEN {<<"ledger", "schema_migrations">>} ELSE {}) \cup
  {<<"entity", e>> : e \in cr} \cup {<<"migration", f>> : f \in sch}

\* what an administration operation did: the schema or seed file of an entity
\* executed, the schema public dropped and created again
AdminEvent(kind, what) == [kind |-> kind, file |-> what, direction |-> "admin", sql |-> <<>>]

\* createSchema(entity) and seedData(entity) as the calls they make one after
\* the other: for 'all' one call per entry of entities that has the file
PlanFor(kind, entity) ==
  IF entity = "all" THEN [i \in 1..Len(Entities) |-> <<kind, Entities[i]>>]
  ELSE <<<<kind, entity>>>>

createSchemaPlan(entity) == PlanFor("create", entity)

seedDataPlan(entity) == PlanFor("seed", entity)

\* a setup that seeds before it creates
setupEntityPlan_SeedFirst(entity) == seedDataPlan(entity) \o createSchemaPlan(entity)

\* setupEntity(entity): await createSchema(entity); await seedData(entity)
setupEntityPlan(entity) == createSchemaPlan(entity) \o seedDataPlan(entity)

\* the file of the call at the head of the plan
PlanFile(step) == EntityFile(IF step[1] = "create" THEN "schema" ELSE "seed", step[2])

\* the next call of the plan runs up to its command: the entity is looked up,
\* the file is looked for, psql -f is started; an empty plan is a return
runPlan(s, files) ==
  IF s.plan = <<>> THEN Finish(s)
  ELSE LET step == Head(s.plan)
       IN IF step[2] \notin Range(Entities) THEN Fail(s, "ValidationError", "entity")
          ELSE IF PlanFile(step) \notin files THEN Fail(s, "NotFoundError", "entityfile")
          ELSE Issue(s, step[1])

\* `${timestamp}_${name}.sql`, the timestamp shortened to its first digit and
\* the name to its first letter
MigrationFileName(name) ==
  <<50, 95>> \o (CASE name = "foods" -> <<102>> [] name = "all" -> <<97>> [] OTHER -> <<98>>)
    \o DotSql

\* the operations of the command line
CliOperations ==
  {"create", "seed", "setup", "reset", "clean", "migrate", "migrate:up", "migrate:down",
   "migrate:status", "migrate:create", "migrate:debug"}

\* the function the switch of main calls for the arguments
Dispatch(operation, entity) ==
  CASE operation = "" -> "usage"
    [] operation = "create" -> IF entity = "" THEN "noentity" ELSE "create"
    [] operation = "seed" -> IF entity = "" THEN "noentity" ELSE "seed"
    [] operation = "setup" -> "setup"
    [] operation = "reset" -> "reset"
    [] operation = "clean" -> "clean"
    [] operation \in {"migrate", "migrate:up"} -> "up"
    [] operation = "migrate:down" -> "down"
    [] operation = "migrate:status" -> "status"
    [] operation = "migrate:create" -> IF entity = "" THEN "noname" ELSE "createfile"
    [] operation = "migrate:debug" -> "debug"
    [] OTHER -> "unknown"

---------------------------------------------------------------------------
(* Initial states and actions *)

InitWith(rs, os, maxFiles, kinds, maxInv) ==
  /\ dir \in {d \in SUBSET FileNames : Cardinality(d) <= maxFiles}
  /\ content \in [dir -> kinds]
  /\ tableExists = FALSE
  /\ ledger = <<>>
  /\ schema = {}
  /\ temp = <<>>
  /\ runners = rs
  /\ ops = os
  /\ run = [r \in AllRunners |-> IdleRun]
  /\ prev = [r \in AllRunners |-> NoPrev]
  /\ invLeft = maxInv
  /\ dirExists = TRUE
  /\ dbFiles = EntityFiles
  /\ created = {}
  /\ seeded = {}

\* a fresh database, a migrations directory, one CLI process at a time
Init == InitWith({1}, Ops, MaxFiles, ContentKinds, MaxInvocations)

\* two CLI processes against the same database, in the same working directory
InitConc == InitWith(AllRunners, {"up", "down"}, MaxConcFiles, ConcContentKinds, MaxConcInvocations)

\* one CLI process at a time, the files holding comments the marker pattern matches
InitSections ==
  InitWith({1}, {"up", "down"}, MaxSectionFiles, SectionContentKinds, MaxSectionInvocations)

\* one CLI process at a time that can be interrupted
InitInterrupt ==
  InitWith({1}, {"up", "down"}, MaxInterruptFiles, ContentKinds, MaxInterruptInvocations)

\* one CLI process at a time, the directory absent or holding any entries
InitEntries ==
  /\ dirExists \in BOOLEAN
  /\ dir \in {d \in SUBSET EntryNames : Cardinality(d) <= MaxEntries /\ (d # {} => dirExists)}
  /\ content \in [dir -> {ContentFull}]
  /\ tableExists = FALSE
  /\ ledger = <<>>
  /\ schema = {}
  /\ temp = <<>>
  /\ runners = {1}
  /\ ops = {"up", "down"}
  /\ run = [r \in AllRunners |-> IdleRun]
  /\ prev = [r \in AllRunners |-> NoPrev]
  /\ invLeft = MaxEntryInvocations
  /\ dbFiles = EntityFiles
  /\ created = {}
  /\ seeded = {}

\* the orders in which the versions of the set vs can have been inserted
RECURSIVE Orderings(_)
Orderings(vs) ==
  IF vs = {} THEN {<<>>}
  ELSE UNION {{Append(o, v) : o \in Orderings(vs \ {v})} : v \in vs}

\* every migration file applied, in any order of insertion, each file with a
\* non-empty DOWN section; one CLI process at a time that rolls back
InitDown ==
  /\ dirExists = TRUE
  /\ dir \in {d \in SUBSET FileNames : Cardinality(d) <= MaxDownFiles}
  /\ content \in [dir -> {ContentFull}]
  /\ tableExists = TRUE
  /\ ledger \in Orderings({VersionOf(f) : f \in dir})
  /\ schema = dir
  /\ temp = <<>>
  /\ runners = {1}
  /\ ops = {"down"}
  /\ run = [r \in AllRunners |-> IdleRun]
  /\ prev = [r \in AllRunners |-> NoPrev]
  /\ invLeft = MaxDownInvocations
  /\ dbFiles = EntityFiles
  /\ created = {}
  /\ seeded = {}

\* the checkouts the model starts from: every entity file, or one missing
DbFileChoices ==
  {EntityFiles, EntityFiles \ {EntityFile("schema", "users")},
   EntityFiles \ {EntityFile("seed", "foods")}}

\* one CLI process at a time given the arguments args; the database fresh, or
\* set up with every migration file applied in the order of the filenames
InitCliWith(args, maxFiles, maxInv) ==
  /\ dirExists = TRUE
  /\ dir \in {d \in SUBSET FileNames : Cardinality(d) <= maxFiles}
  /\ content \in [dir -> {ContentFull}]
  /\ tableExists \in BOOLEAN
  /\ ledger = IF tableExists
              THEN LET fs == getMigrationFiles(dir) IN [i \in 1..Len(fs) |-> VersionOf(fs[i])]
              ELSE <<>>
  /\ schema = IF tableExists THEN dir ELSE {}
  /\ temp = <<>>
  /\ runners = {1}
  /\ ops = args
  /\ run = [r \in AllRunners |-> IdleRun]
  /\ prev = [r \in AllRunners |-> NoPrev]
  /\ invLeft = maxInv
  /\ dbFiles \in DbFileChoices
  /\ created = IF tableExists THEN Range(Entities) ELSE {}
  /\ seeded = created

\* what the process can be given: no operation, every operation of the tool
\* and an unknown one, with no entity, an entity, 'all' and an unknown entity
CliArgs ==
  {<<o, e>> : o \in CliOperations \cup {"", "serve"}, e \in {"", "foods", "all", "meals"}}

InitCli == InitCliWith(CliArgs, MaxCliFiles, MaxCliInvocations)

AdminArgs ==
  {<<"clean", "">>, <<"reset", "">>, <<"setup", "">>, <<"setup", "foods">>,
   <<"migrate:up", "">>, <<"migrate:down", "">>}

InitAdmin == InitCliWith(AdminArgs, MaxAdminFiles, MaxAdminInvocations)

Quiet == \A r \in runners : run[r].pc \in {"idle", "done", "killed"}

\* one step of process r to the state s1: the clock reading is used up, the
\* name of the temp file is gone with the runMigration call that held it, and
\* the temp directory follows
Step(r, s1) ==
  /\ run' = [run EXCEPT ![r] =
               [s1 EXCEPT !.now = 0,
                          !.tempFile = IF RunsMigration(s1) THEN @ ELSE <<>>]]
  /\ temp' = TempAfter(temp, run[r], s1)

\* a process that has started nothing but read its arguments and the state
\* it starts from
Fresh(o, argv) ==
  [IdleRun EXCEPT !.op = o, !.argv = argv, !.startLedger = ledger,
                  !.startTable = tableExists, !.startSchema = schema]

\* migrateUp, migrationStatus and debugMigrations list the files first; all of
\* them, migrateDown too, then start the CREATE TABLE IF NOT EXISTS
BeginMigrate(o, argv) ==
  Issue([Fresh(o, argv) EXCEPT
           !.allMigrations = IF o = "down" THEN <<>> ELSE getMigrationFiles(dir)],
        "ensure")

\* main dispatches migrate / migrate:up, migrate:down, migrate:status or
\* migrate:debug; the operation runs up to its first command, the CREATE TABLE
\* IF NOT EXISTS of ensureMigrationsTable
Start(r, o) ==
  /\ run[r].pc \in {"idle", "done", "killed"}
  /\ invLeft > 0
  /\ invLeft' = invLeft - 1
  /\ prev' = [prev EXCEPT ![r] = IF run[r].pc # "idle" THEN Summary(run[r]) ELSE @]
  /\ run' = [run EXCEPT ![r] = BeginMigrate(o, NoArgv)]
  /\ dirExists' = (dirExists \/ o # "down")
  /\ UNCHANGED <<dir, content, tableExists, ledger, schema, temp, runners, ops, entityVars>>

\* the CREATE TABLE IF NOT EXISTS command ends; on an existing table psql
\* prints the NOTICE "relation already exists, skipping" to stderr
Ensure(r) ==
  /\ run[r].pc = "ensure"
  /\ \E out \in Outcomes(TRUE, tableExists) : \E now \in NowChoices(r) :
       LET s == [run[r] EXCEPT !.lastOut = out, !.now = now]
       IN /\ tableExists' = IF out.error THEN tableExists ELSE TRUE
          /\ Step(r, IF runCommand(out) = "resolve" THEN Issue(s, "select")
                     ELSE getAppliedMigrationsCatch(s, "DatabaseError", "ensure",
                                                    dir, content))
  /\ UNCHANGED <<dir, content, ledger, schema, runners, ops, dirExists, entityVars, prev, invLeft>>

\* the SELECT version ... ORDER BY version command ends
Select(r) ==
  /\ run[r].pc = "select"
  /\ \E out \in Outcomes(tableExists, FALSE) : \E now \in NowChoices(r) :
       LET s == [run[r] EXCEPT !.lastOut = out, !.now = now]
       IN /\ Step(r, IF runCommand(out) = "resolve"
                     THEN AfterApplied(s, ReadApplied(ledger), dir, content)
                     ELSE getAppliedMigrationsCatch(s, "DatabaseError", "select",
                                                    dir, content))
          /\ dirExists' = (dirExists \/ (/\ runCommand(out) = "resolve"
                                          /\ s.op = "down"
                                          /\ ReadApplied(ledger) # <<>>))
  /\ UNCHANGED <<dir, content, tableExists, ledger, schema, runners, ops, entityVars,
                 prev, invLeft>>

\* psql -f tempFile ends: the SQL the temp file holds ran, or the command
\* failed, as it does when the file does not exist
Exec(r) ==
  /\ run[r].pc = "exec"
  /\ \E out \in Outcomes(run[r].tempFile \in DOMAIN temp, FALSE) :
       LET s == [run[r] EXCEPT !.lastOut = out]
       IN /\ schema' = IF out.error THEN schema
                       ELSE IF temp[s.tempFile].op = "up"
                            THEN schema \cup {temp[s.tempFile].cur}
                            ELSE schema \ {temp[s.tempFile].cur}
          /\ Step(r, IF runCommand(out) = "resolve"
                     THEN Issue([s EXCEPT !.evLog = Append(@, SqlEvent(temp[s.tempFile]))],
                                IF s.op = "up" THEN "insert" ELSE "delete")
                     ELSE runMigrationCatch(s, "DatabaseError", "exec"))
  /\ UNCHANGED <<dir, content, tableExists, ledger, runners, ops, dirExists, entityVars,
                 prev, invLeft>>

\* an INSERT that is committed although the command reports a failure
Insert_Committed(r) ==
  /\ run[r].pc = "insert"
  /\ \E out \in Outcomes(tableExists, FALSE) :
       LET s == [run[r] EXCEPT !.lastOut = out]
       IN /\ ledger' = IF tableExists THEN InsertOrIgnore(ledger, VersionOf(s.cur))
                       ELSE ledger
          /\ Step(r, IF runCommand(out) = "resolve"
                     THEN Issue([s EXCEPT !.evLog = Append(@, LedgerEvent("insert", s))],
                                "verify")
                     ELSE runMigrationCatch(s, "DatabaseError", "insert"))
  /\ UNCHANGED <<dir, content, tableExists, schema, runners, ops, dirExists, entityVars,
                 prev, invLeft>>

\* the INSERT ... ON CONFLICT (version) DO NOTHING command ends
Insert(r) ==
  /\ run[r].pc = "insert"
  /\ \E out \in Outcomes(tableExists, FALSE) :
       LET s == [run[r] EXCEPT !.lastOut = out]
       IN /\ ledger' = IF out.error THEN ledger
                       ELSE InsertOrIgnore(ledger, VersionOf(s.cur))
          /\ Step(r, IF runCommand(out) = "resolve"
                     THEN Issue([s EXCEPT !.evLog = Append(@, LedgerEvent("insert", s))],
                                "verify")
                     ELSE runMigrationCatch(s, "DatabaseError", "insert"))
  /\ UNCHANGED <<dir, content, tableExists, schema, runners, ops, dirExists, entityVars,
                 prev, invLeft>>

\* the SELECT COUNT(*) verification command ends
Verify(r) ==
  /\ run[r].pc = "verify"
  /\ \E out \in Outcomes(tableExists, FALSE) : \E now \in NowChoices(r) :
       LET s == [run[r] EXCEPT !.lastOut = out, !.now = now]
       IN Step(r, IF runCommand(out) = "resolve" THEN migrateUpNext(s, dir, content)
                  ELSE runMigrationCatch(s, "DatabaseError", "verify"))
  /\ UNCHANGED <<dir, content, tableExists, ledger, schema, runners, ops, dirExists,
                 entityVars, prev, invLeft>>

\* the DELETE FROM schema_migrations command ends
Delete(r) ==
  /\ run[r].pc = "delete"
  /\ \E out \in Outcomes(tableExists, FALSE) :
       LET s == [run[r] EXCEPT !.lastOut = out]
       IN /\ ledger' = IF out.error THEN ledger
                       ELSE DeleteVersion(ledger, VersionOf(s.cur))
          /\ Step(r, IF runCommand(out) = "resolve"
                     THEN Finish([s EXCEPT !.evLog = Append(@, LedgerEvent("delete", s))])
                     ELSE runMigrationCatch(s, "DatabaseError", "delete"))
  /\ UNCHANGED <<dir, content, tableExists, schema, runners, ops, dirExists, entityVars,
                 prev, invLeft>>

\* the operator deletes a migration file while no operation is running
RemoveFile(f) ==
  /\ Quiet
  /\ f \in dir
  /\ dir' = dir \ {f}
  /\ content' = [g \in dir \ {f} |-> content[g]]
  /\ UNCHANGED <<tableExists, ledger, schema, temp, runners, ops, dirExists, entityVars,
                 run, prev, invLeft>>

\* the process is killed while a command is in flight: nothing of runMigration
\* runs any more, its finally block included
Interrupt(r) ==
  /\ run[r].pc \in {"ensure", "select", "exec", "insert", "verify", "delete"}
  /\ run' = [run EXCEPT ![r] = [run[r] EXCEPT !.pc = "killed", !.result = "interrupted",
                                              !.failedAt = run[r].pc]]
  /\ UNCHANGED <<dir, content, tableExists, ledger, schema, temp, runners, ops,
                 dirExists, entityVars, prev, invLeft>>

\* main with the arguments argv, up to the first command of the operation it
\* calls or to its end
Main(r, argv) ==
  /\ run[r].pc \in {"idle", "done", "killed"}
  /\ invLeft > 0
  /\ invLeft' = invLeft - 1
  /\ prev' = [prev EXCEPT ![r] = IF run[r].pc # "idle" THEN Summary(run[r]) ELSE @]
  /\ LET fn == Dispatch(argv[1], argv[2])
         s0 == Fresh(fn, argv)
         filename == MigrationFileName(argv[2])
     IN /\ run' = [run EXCEPT ![r] =
                     CASE fn = "usage" -> Finish([s0 EXCEPT !.usage = TRUE])
                       [] fn = "unknown" ->
                            Fail([s0 EXCEPT !.usage = TRUE], "ValidationError", "operation")
                       [] fn \in {"noentity", "noname"} ->
                            Fail(s0, "ValidationError", "arguments")
                       [] fn = "create" ->
                            runPlan([s0 EXCEPT !.plan = createSchemaPlan(argv[2])], dbFiles)
                       [] fn = "seed" ->
                            runPlan([s0 EXCEPT !.plan = seedDataPlan(argv[2])], dbFiles)
                       [] fn = "setup" ->
                            runPlan([s0 EXCEPT !.plan =
                                       setupEntityPlan(IF argv[2] = "" THEN "all" ELSE argv[2])],
                                    dbFiles)
                       [] fn = "reset" -> Issue(s0, "dropschema")
                       [] fn = "clean" -> Issue(s0, "cleanlist")
                       [] fn = "createfile" -> Finish(s0)
                       [] OTHER -> BeginMigrate(fn, argv)]
        /\ dir' = IF fn = "createfile" THEN dir \cup {filename} ELSE dir
        /\ content' = IF fn = "createfile"
                      THEN [f \in dir \cup {filename} |->
                              IF f = filename THEN ContentFull ELSE content[f]]
                      ELSE content
        /\ dirExists' = (dirExists \/ fn \in {"up", "status", "debug", "createfile"})
  /\ UNCHANGED <<tableExists, ledger, schema, temp, runners, ops, entityVars>>

\* psql -f of a schema file or a seed file ends; psql reports an existing
\* table, or a seed without its table, on stderr
PsqlFile(r) ==
  /\ run[r].pc \in {"create", "seed"}
  /\ LET step == Head(run[r].plan)
     IN \E out \in Outcomes(TRUE, (step[2] \in created) = (step[1] = "create")) :
          LET s == [run[r] EXCEPT !.lastOut = out]
          IN /\ created' = IF ~out.error /\ step[1] = "create"
                           THEN created \cup {step[2]} ELSE created
             /\ seeded' = IF ~out.error /\ step[1] = "seed" /\ step[2] \in created
                          THEN seeded \cup {step[2]} ELSE seeded
             /\ Step(r, IF runCommand(out) = "resolve"
                        THEN runPlan([s EXCEPT !.plan = Tail(@),
                                               !.evLog = Append(@, AdminEvent(step[1], step[2]))],
                                     dbFiles)
                        ELSE Fail(s, "DatabaseError", step[1]))
  /\ UNCHANGED <<dir, content, tableExists, ledger, schema, runners, ops, prev, invLeft,
                 dirExists, dbFiles>>

\* DROP SCHEMA public CASCADE; CREATE SCHEMA public; ends: one command, one
\* transaction; resetDatabase goes on with setupEntity('all')
DropSchema(r) ==
  /\ run[r].pc = "dropschema"
  /\ \E out \in Outcomes(TRUE, Tables(tableExists, schema, created) # {}) :
       LET s == [run[r] EXCEPT !.lastOut = out]
       IN /\ tableExists' = (out.error /\ tableExists)
          /\ ledger' = IF out.error THEN ledger ELSE <<>>
          /\ schema' = IF out.error THEN schema ELSE {}
          /\ created' = IF out.error THEN created ELSE {}
          /\ seeded' = IF out.error THEN seeded ELSE {}
          /\ Step(r, IF runCommand(out) = "resolve"
                     THEN runPlan([s EXCEPT !.plan = setupEntityPlan("all"),
                                            !.evLog = Append(@, AdminEvent("dropschema", "public"))],
                                  dbFiles)
                     ELSE Fail(s, "DatabaseError", "dropschema"))
  /\ UNCHANGED <<dir, content, runners, ops, prev, invLeft, dirExists, dbFiles>>

\* SELECT tablename FROM pg_tables WHERE schemaname = 'public' ends:
\* cleanDatabase returns when there is no table, else starts the first DROP
CleanList(r) ==
  /\ run[r].pc = "cleanlist"
  /\ \E out \in Outcomes(TRUE, FALSE) :
       LET s == [run[r] EXCEPT !.lastOut = out]
           tables == Tables(tableExists, schema, created)
       IN Step(r, IF runCommand(out) = "resolve"
                  THEN IF tables = {} THEN Finish(s)
                       ELSE Issue([s EXCEPT !.todo = tables], "cleandrop")
                  ELSE Fail(s, "DatabaseError", "cleanlist"))
  /\ UNCHANGED <<dir, content, tableExists, ledger, schema, runners, ops, prev, invLeft,
                 dirExists, entityVars>>

\* a clean that leaves the ledger table out
CleanDrop_KeepsLedger(r) ==
  /\ run[r].pc = "cleandrop"
  /\ \E t \in run[r].todo : \E out \in Outcomes(TRUE, FALSE) :
       LET s == [run[r] EXCEPT !.lastOut = out]
           rest == run[r].todo \ {t}
       IN /\ UNCHANGED <<tableExists, ledger>>
          /\ schema' = IF ~out.error /\ t[1] = "migration" THEN schema \ {t[2]} ELSE schema
          /\ created' = IF ~out.error /\ t[1] = "entity" THEN created \ {t[2]} ELSE created
          /\ seeded' = IF ~out.error /\ t[1] = "entity" THEN seeded \ {t[2]} ELSE seeded
          /\ Step(r, IF runCommand(out) = "resolve"
                     THEN Issue([s EXCEPT !.todo = rest],
                                IF rest = {} THEN "cleanseq" ELSE "cleandrop")
                     ELSE Fail(s, "DatabaseError", "cleandrop"))
  /\ UNCHANGED <<dir, content, runners, ops, prev, invLeft, dirExists, dbFiles>>

\* a DROP TABLE IF EXISTS ... CASCADE ends, the one of any table of the list
\* not dropped yet (pg_tables is read without ORDER BY); the next DROP is
\* started, or after the last one the SELECT of the sequences
CleanDrop(r) ==
  /\ run[r].pc = "cleandrop"
  /\ \E t \in run[r].todo : \E out \in Outcomes(TRUE, FALSE) :
       LET s == [run[r] EXCEPT !.lastOut = out]
           rest == run[r].todo \ {t}
       IN /\ tableExists' = IF ~out.error /\ t[1] = "ledger" THEN FALSE ELSE tableExists
          /\ ledger' = IF ~out.error /\ t[1] = "ledger" THEN <<>> ELSE ledger
          /\ schema' = IF ~out.error /\ t[1] = "migration" THEN schema \ {t[2]} ELSE schema
          /\ created' = IF ~out.error /\ t[1] = "entity" THEN created \ {t[2]} ELSE created
          /\ seeded' = IF ~out.error /\ t[1] = "entity" THEN seeded \ {t[2]} ELSE seeded
          /\ Step(r, IF runCommand(out) = "resolve"
                     THEN Issue([s EXCEPT !.todo = rest],
                                IF rest = {} THEN "cleanseq" ELSE "cleandrop")
                     ELSE Fail(s, "DatabaseError", "cleandrop"))
  /\ UNCHANGED <<dir, content, runners, ops, prev, invLeft, dirExists, dbFiles>>

\* the SELECT of the sequences, of the views or of the number of tables left
\* ends: the database of the model has no sequence and no view of its own, so
\* the next SELECT is started; after the last one cleanDatabase returns
CleanQuery(r) ==
  /\ run[r].pc \in {"cleanseq", "cleanviews", "cleanverify"}
  /\ \E out \in Outcomes(TRUE, FALSE) :
       LET s == [run[r] EXCEPT !.lastOut = out]
       IN Step(r, IF runCommand(out) = "resolve"
                  THEN CASE s.pc = "cleanseq" -> Issue(s, "cleanviews")
                         [] s.pc = "cleanviews" -> Issue(s, "cleanverify")
                         [] OTHER -> Finish(s)
                  ELSE Fail(s, "DatabaseError", s.pc))
  /\ UNCHANGED <<dir, content, tableExists, ledger, schema, runners, ops, prev, invLeft,
                 dirExists, entityVars>>

Next ==
  \/ \E r \in runners : \E o \in ops : Start(r, o)
  \/ \E r \in runners : Ensure(r)
  \/ \E r \in runners : Select(r)
  \/ \E r \in runners : Exec(r)
  \/ \E r \in runners : Insert(r)
  \/ \E r \in runners : Verify(r)
  \/ \E r \in runners : Delete(r)
  \/ \E f \in FileNames : RemoveFile(f)

NextInterrupt ==
  \/ Next
  \/ \E r \in runners : Interrupt(r)

NextEntries ==
  \/ \E r \in runners : \E o \in ops : Start(r, o)
  \/ \E r \in runners : Ensure(r)
  \/ \E r \in runners : Select(r)
  \/ \E r \in runners : Exec(r)
  \/ \E r \in runners : Insert(r)
  \/ \E r \in runners : Verify(r)
  \/ \E r \in runners : Delete(r)
  \/ \E f \in EntryNames : RemoveFile(f)

\* the steps of migrateDown, the files staying as they are
NextDown ==
  \/ \E r \in runners : \E o \in ops : Start(r, o)
  \/ \E r \in runners : Ensure(r)
  \/ \E r \in runners : Select(r)
  \/ \E r \in runners : Exec(r)
  \/ \E r \in runners : Delete(r)

\* the steps of a process started from the command line
NextCli ==
  \/ \E r \in runners : \E argv \in ops : Main(r, argv)
  \/ \E r \in runners : Ensure(r)
  \/ \E r \in runners : Select(r)
  \/ \E r \in runners : Exec(r)
  \/ \E r \in runners : Insert(r)
  \/ \E r \in runners : Verify(r)
  \/ \E r \in runners : Delete(r)
  \/ \E r \in runners : PsqlFile(r)
  \/ \E r \in runners : DropSchema(r)
  \/ \E r \in runners : CleanList(r)
  \/ \E r \in runners : CleanDrop(r)
  \/ \E r \in runners : CleanQuery(r)

Spec == Init /\ [][Next]_vars

SpecCli == InitCli /\ [][NextCli]_vars

SpecAdmin == InitAdmin /\ [][NextCli]_vars

SpecDown == InitDown /\ [][NextDown]_vars

SpecEntries == InitEntries /\ [][NextEntries]_vars

SpecConc == InitConc /\ [][Next]_vars

SpecSections == InitSections /\ [][Next]_vars

SpecInterrupt == InitInterrupt /\ [][NextInterrupt]_vars

---------------------------------------------------------------------------
(* Vocabulary of the properties *)

UpDone(r) == run[r].op = "up" /\ run[r].pc = "done"

DownDone(r) == run[r].op = "down" /\ run[r].pc = "done"

\* the stages at which an external command failed
CommandStages == {"ensure", "select", "exec", "insert", "verify", "delete"}

NoCommandFailed(r) == run[r].failedAt \notin CommandStages

\* the files an event log executed SQL of, in order
SqlFiles(log) ==
  LET IsSql(e) == e.kind = "sql"
      es == SelectSeq(log, IsSql)
  IN [i \in 1..Len(es) |-> es[i].file]

\* the events of applying the files fs[1..n] completely, one after the other:
\* the UP SQL of a file, then the insert of its version
UpLog(fs, n, c) ==
  [i \in 1..(2 * n) |->
     LET f == fs[(i + 1) \div 2]
     IN IF i % 2 = 1
        THEN [kind |-> "sql", file |-> f, direction |-> "up",
              sql |-> ExtractSection(c[f], "up").sql]
        ELSE [kind |-> "insert", file |-> f, direction |-> "up", sql |-> <<>>]]

\* the files of fs whose version is not in rows, in the order of fs
PendingOf(fs, rows) ==
  LET NotIn(f) == VersionOf(f) \notin Range(rows) IN SelectSeq(fs, NotIn)

StrictlyAscending(seq, Key(_)) ==
  \A i \in 1..Len(seq) : \A j \in 1..Len(seq) :
     i < j => StrLess(Key(seq[i]), Key(seq[j]))

Same(x) == x

\* every pending file of the run is still in the directory with a non-empty UP section
PendingHaveUp(r) ==
  \A f \in Range(run[r].pending) :
     f \in dir /\ ExtractSection(content[f], "up").err = "none"

---------------------------------------------------------------------------
(* C1: migrateUp applies exactly the pending files, in order *)

\* C1 (as stated): when every command succeeds and every pending file has a
\* non-empty UP section, migrateUp executes the UP SQL of exactly the pending
\* files, one at a time in ascending VERSION order, records each version before
\* the next migration starts, and ends with every file version in the ledger.
C1_AscendingVersionOrder ==
  \A r \in runners :
     (UpDone(r) /\ NoCommandFailed(r) /\ PendingHaveUp(r)) =>
        /\ run[r].result = "ok"
        /\ run[r].pending = PendingOf(run[r].allMigrations, run[r].startLedger)
        /\ run[r].evLog = UpLog(run[r].pending, Len(run[r].pending), content)
        /\ StrictlyAscending(SqlFiles(run[r].evLog), VersionOf)
        /\ \A f \in Range(run[r].allMigrations) : VersionOf(f) \in Range(ledger)

\* C1 (amended): the same, the order being ascending FILENAME order, the order
\* getMigrationFiles returns.
C1_AscendingFileOrder ==
  \A r \in runners :
     (UpDone(r) /\ NoCommandFailed(r) /\ PendingHaveUp(r)) =>
        /\ run[r].result = "ok"
        /\ run[r].pending = PendingOf(run[r].allMigrations, run[r].startLedger)
        /\ run[r].evLog = UpLog(run[r].pending, Len(run[r].pending), content)
        /\ StrictlyAscending(SqlFiles(run[r].evLog), Same)
        /\ \A f \in Range(run[r].allMigrations) : VersionOf(f) \in Range(ledger)

\* a run that applied three pending files on top of nothing
C1_Witness ==
  \E r \in runners :
     /\ UpDone(r) /\ run[r].result = "ok"
     /\ Len(run[r].pending) = 3
     /\ Len(run[r].evLog) = 6
     /\ Len(ledger) = 3

---------------------------------------------------------------------------
(* C2: a failing migration aborts the run *)

\* number of commands a migration uses up to and including stage st
StageCommands(st) ==
  CASE st = "exec" -> 1
    [] st = "insert" -> 2
    [] st = "verify" -> 3
    [] OTHER -> 0

\* C2: if applying a pending migration fails during migrateUp (section
\* extraction, SQL execution or ledger write), the run aborts at once: the
\* failure propagates, no later pending migration is attempted, the failed step
\* is not retried, and the versions recorded earlier in the run stay recorded.
C2_AbortOnFailure ==
  \A r \in runners :
     (UpDone(r) /\ run[r].failedAt \in {"empty", "exec", "insert"}) =>
        LET s == run[r]
            k == s.idx - 1
        IN /\ s.result \in {"ValidationError", "DatabaseError"}
           /\ s.idx \in 1..Len(s.pending)
           /\ s.cur = s.pending[s.idx]
           /\ Len(s.evLog) = 2 * k + (IF s.failedAt = "insert" THEN 1 ELSE 0)
           /\ \A i \in 1..k :
                /\ s.evLog[2 * i - 1].kind = "sql" /\ s.evLog[2 * i - 1].file = s.pending[i]
                /\ s.evLog[2 * i].kind = "insert" /\ s.evLog[2 * i].file = s.pending[i]
           /\ s.failedAt = "insert" =>
                /\ s.evLog[2 * k + 1].kind = "sql"
                /\ s.evLog[2 * k + 1].file = s.cur
           /\ s.ncmd = 2 + 3 * k + StageCommands(s.failedAt)
           /\ \A i \in 1..k : VersionOf(s.pending[i]) \in Range(ledger)
           /\ VersionOf(s.cur) \notin Range(ledger) \ Range(s.startLedger)

\* the second of three pending migrations failed to execute
C2_Witness ==
  \E r \in runners :
     /\ UpDone(r) /\ run[r].failedAt = "exec"
     /\ run[r].idx = 2 /\ Len(run[r].pending) = 3
     /\ VersionOf(run[r].pending[1]) \in Range(ledger)

---------------------------------------------------------------------------
(* C3: the ledger changes only behind a successful SQL execution *)

\* rows without the rows of version v, the others untouched and in place
Without(rows, v) ==
  LET Other(x) == x # v IN SelectSeq(rows, Other)

LastEvent(s) == s.evLog[Len(s.evLog)]

\* process r just ran the SQL of its current file in direction d, and nothing since
JustExecuted(r, d) ==
  /\ run[r].op = d
  /\ run[r].evLog # <<>>
  /\ LastEvent(run[r]).kind = "sql"
  /\ LastEvent(run[r]).file = run[r].cur
  /\ LastEvent(run[r]).direction = d

LedgerStep ==
  /\ ledger' # ledger =>
       \E r \in runners :
          \/ /\ run[r].pc = "insert" /\ run'[r].pc = "verify"
             /\ JustExecuted(r, "up")
             /\ ledger' = Append(ledger, VersionOf(run[r].cur))
          \/ /\ run[r].pc = "delete" /\ run'[r].result = "ok"
             /\ JustExecuted(r, "down")
             /\ ledger' = Without(ledger, VersionOf(run[r].cur))
  /\ \A r \in runners :
       (run[r].pc = "exec" /\ run'[r].pc # "exec") =>
          /\ ledger' = ledger
          /\ run'[r].failedAt = "exec" =>
               (run'[r].pc = "done" /\ run'[r].evLog = run[r].evLog)

\* C3: in any sequence of migrateUp and migrateDown invocations, with any
\* command allowed to fail, a version is inserted into the ledger only directly
\* after its UP SQL executed successfully in the same invocation and deleted
\* only directly after its DOWN SQL executed successfully; a failed SQL
\* execution leaves the ledger unchanged and no row is modified in place.
C3_LedgerFollowsSql == [][LedgerStep]_vars

\* a row was inserted by one invocation and deleted by the next
C3_Witness ==
  \E r \in runners :
     /\ DownDone(r) /\ run[r].result = "ok"
     /\ prev[r].op = "up" /\ prev[r].failedAt = "exec"
     /\ Len(run[r].startLedger) = 2 /\ Len(ledger) = 1

---------------------------------------------------------------------------
(* C4, C5: migrateDown rolls back the greatest applied version or nothing *)

\* the lexicographically greatest version of a non-empty ledger
GreatestVersion(rows) ==
  CHOOSE v \in Range(rows) : \A w \in Range(rows) \ {v} : StrLess(w, v)

\* the files the run listed that have version v
FilesOfVersion(r, v) == {f \in Range(run[r].allMigrations) : VersionOf(f) = v}

\* C4: with a non-empty ledger whose greatest version has a file with a
\* non-empty DOWN section, one migrateDown (its commands succeeding) executes
\* the DOWN SQL of exactly one migration, the one of the greatest applied
\* version, then removes only that version; the other rows are unchanged.
C4_RollsBackGreatestOnly ==
  \A r \in runners :
     (/\ DownDone(r) /\ NoCommandFailed(r)
      /\ run[r].startLedger # <<>>
      /\ \E f \in FilesOfVersion(r, GreatestVersion(run[r].startLedger)) :
            f \in dir /\ ExtractSection(content[f], "down").err = "none") =>
        LET g == GreatestVersion(run[r].startLedger)
        IN /\ run[r].result = "ok"
           /\ Len(run[r].evLog) = 2
           /\ run[r].evLog[1].kind = "sql" /\ run[r].evLog[1].direction = "down"
           /\ VersionOf(run[r].evLog[1].file) = g
           /\ run[r].evLog[1].sql = ExtractSection(content[run[r].evLog[1].file], "down").sql
           /\ run[r].evLog[2].kind = "delete" /\ run[r].evLog[2].file = run[r].evLog[1].file
           /\ ledger = Without(run[r].startLedger, g)
           /\ Len(ledger) = Len(run[r].startLedger) - 1

\* three versions were applied and the rollback removed one of them
C4_Witness ==
  \E r \in runners :
     /\ DownDone(r) /\ run[r].result = "ok"
     /\ Len(run[r].startLedger) = 3 /\ Len(ledger) = 2

\* C5: when the greatest applied version has no migration file, migrateDown
\* fails with NotFoundError, executes no DOWN SQL and leaves the ledger
\* unchanged; it does not fall back to another applied version.
C5_OrphanTargetFails ==
  \A r \in runners :
     (/\ DownDone(r) /\ NoCommandFailed(r)
      /\ run[r].startLedger # <<>>
      /\ FilesOfVersion(r, GreatestVersion(run[r].startLedger)) = {}) =>
        /\ run[r].result = "NotFoundError"
        /\ run[r].evLog = <<>>
        /\ run[r].ncmd = 2
        /\ ledger = run[r].startLedger

\* the rollback target has no file while another applied version has one
C5_Witness ==
  \E r \in runners :
     /\ DownDone(r) /\ run[r].result = "NotFoundError"
     /\ Len(ledger) = 2
     /\ \E f \in Range(run[r].allMigrations) : VersionOf(f) \in Range(ledger)

---------------------------------------------------------------------------
(* C6: UP then DOWN returns the ledger to where it was *)

\* C6: from a ledger L without version v, v greater than every version of L, a
\* successful migrateUp that applies only v followed by a successful
\* migrateDown leaves the ledger equal to L.
C6_RoundTrip ==
  \A r \in runners :
     (/\ DownDone(r) /\ run[r].result = "ok"
      /\ prev[r].op = "up" /\ prev[r].result = "ok"
      /\ Len(prev[r].pending) = 1
      /\ VersionOf(prev[r].pending[1]) \notin Range(prev[r].startLedger)
      /\ \A w \in Range(prev[r].startLedger) : StrLess(w, VersionOf(prev[r].pending[1]))) =>
        /\ ledger = prev[r].startLedger
        /\ VersionOf(prev[r].pending[1]) \notin Range(ledger)
        /\ run[r].evLog[1].file = prev[r].pending[1]

\* the round trip took place on top of a ledger that was not empty
C6_Witness ==
  \E r \in runners :
     /\ DownDone(r) /\ run[r].result = "ok"
     /\ prev[r].op = "up" /\ prev[r].result = "ok"
     /\ Len(prev[r].pending) = 1
     /\ prev[r].startLedger # <<>>
     /\ ledger = prev[r].startLedger

---------------------------------------------------------------------------
(* C7: a version has at most one ledger row *)

Count(rows, v) == Cardinality({i \in 1..Len(rows) : rows[i] = v})

NoDuplicateVersion == \A v \in Range(ledger) : Count(ledger, v) = 1

\* a successful INSERT leaves exactly one row of its version, and none is added
\* when the version is already recorded
InsertStep ==
  \A r \in runners :
     (run[r].pc = "insert" /\ run'[r].pc = "verify") =>
        /\ Count(ledger', VersionOf(run[r].cur)) = 1
        /\ VersionOf(run[r].cur) \in Range(ledger) => ledger' = ledger

\* C7: after any sequence of migrateUp/migrateDown invocations, two concurrent
\* migrateUp runs included, each version appears at most once in the ledger;
\* recording a version twice leaves one row of it and raises no error.
C7_OneRowPerVersion == [](NoDuplicateVersion) /\ [][InsertStep]_vars

\* both processes recorded the same version, the second insert ending normally
C7_Witness ==
  /\ run[1].pc = "verify" /\ run[2].pc = "verify"
  /\ run[1].cur = run[2].cur
  /\ Count(ledger, VersionOf(run[1].cur)) = 1

---------------------------------------------------------------------------
(* C8: a failing ledger read *)

\* C8: when the ensure-table command or the SELECT fails, getAppliedMigrations
\* returns the empty list instead of propagating the error: migrateUp treats
\* every file as pending, migrateDown is a no-op, status and debug complete.
C8_ReadFailureGivesEmptyList ==
  \A r \in runners :
     run[r].readFailed =>
        /\ run[r].failedAt \notin {"ensure", "select"}
        /\ run[r].op = "up" => run[r].pending = run[r].allMigrations
        /\ (run[r].op \in {"down", "status", "debug"} /\ run[r].pc = "done") =>
              (run[r].result = "ok" /\ run[r].evLog = <<>>)

---------------------------------------------------------------------------
(* C9: a failing verification query *)

\* C9: after a migration's UP SQL ran and its version was recorded, a failure
\* of the verification query does not make the migration or the run fail: no
\* run ends because of it.
C9_VerifyFailureIsHarmless ==
  \A r \in runners :
     ~(run[r].pc = "done" /\ run[r].failedAt = "verify" /\ run[r].result # "ok")

---------------------------------------------------------------------------
(* C10: migrateUp with nothing pending *)

NothingPending(r) ==
  /\ UpDone(r) /\ NoCommandFailed(r)
  /\ PendingOf(run[r].allMigrations, run[r].startLedger) = <<>>

\* C10 (as stated): migrateUp with an empty pending set performs zero Command
\* Executor invocations, changes neither ledger nor schema, returns normally.
C10_ZeroCommands ==
  \A r \in runners :
     NothingPending(r) =>
        /\ run[r].result = "ok"
        /\ run[r].ncmd = 0
        /\ ledger = run[r].startLedger
        /\ schema = run[r].startSchema
        /\ tableExists = run[r].startTable

\* C10 (amended): it performs exactly the two commands of the ledger read
\* (ensure-table, which creates the ledger table when absent, and the SELECT),
\* executes no migration SQL, writes no ledger row and returns normally.
C10_OnlyLedgerRead ==
  \A r \in runners :
     NothingPending(r) =>
        /\ run[r].result = "ok"
        /\ run[r].ncmd = 2
        /\ run[r].evLog = <<>>
        /\ ledger = run[r].startLedger
        /\ schema = run[r].startSchema
        /\ tableExists

\* every file was applied before the run started
C10_Witness ==
  \E r \in runners :
     /\ NothingPending(r) /\ run[r].result = "ok"
     /\ Len(run[r].allMigrations) = 2
     /\ Len(run[r].startLedger) = 2

---------------------------------------------------------------------------
(* C11: a pending migration with an empty UP section *)

\* the UP section runMigration extracts from f holds no SQL
EmptyUp(f) == f \in dir /\ ExtractSection(content[f], "up").err = "empty"

\* a finished migrateUp, its commands succeeding, that had a pending file with
\* an empty UP section; no file was removed since
HasEmptyPending(r) ==
  /\ UpDone(r) /\ NoCommandFailed(r)
  /\ \A f \in Range(run[r].pending) : f \in dir
  /\ \E f \in Range(run[r].pending) : EmptyUp(f)

FirstEmptyUp(r) ==
  CHOOSE i \in 1..Len(run[r].pending) :
     EmptyUp(run[r].pending[i]) /\ \A j \in 1..(i - 1) : ~EmptyUp(run[r].pending[j])

\* C11 (as stated): when a pending migration's extracted UP section is empty or
\* whitespace-only, migrateUp fails with the empty-section ValidationError
\* before invoking the Command Executor: no temp file is written, no SQL is
\* executed for that migration, and its version is not recorded.
C11_FailsBeforeAnyCommand ==
  \A r \in runners :
     HasEmptyPending(r) =>
        /\ run[r].result = "ValidationError" /\ run[r].failedAt = "empty"
        /\ run[r].cur = run[r].pending[FirstEmptyUp(r)]
        /\ run[r].ncmd = 0
        /\ DOMAIN temp = {}
        /\ run[r].cur \notin Range(SqlFiles(run[r].evLog))
        /\ VersionOf(run[r].cur) \notin Range(ledger)

\* C11 (amended): it fails with that error before invoking the Command
\* Executor for that migration; the two commands of the ledger read and the
\* three commands of every pending migration before it have run by then.
C11_FailsBeforeItsCommands ==
  \A r \in runners :
     HasEmptyPending(r) =>
        /\ run[r].result = "ValidationError" /\ run[r].failedAt = "empty"
        /\ run[r].idx = FirstEmptyUp(r)
        /\ run[r].cur = run[r].pending[FirstEmptyUp(r)]
        /\ run[r].ncmd = 2 + 3 * (FirstEmptyUp(r) - 1)
        /\ DOMAIN temp = {}
        /\ run[r].cur \notin Range(SqlFiles(run[r].evLog))
        /\ VersionOf(run[r].cur) \notin Range(ledger)

\* the second pending migration had the empty UP section, the first was applied
C11_Witness ==
  \E r \in runners :
     /\ HasEmptyPending(r) /\ run[r].failedAt = "empty"
     /\ run[r].idx = 2
     /\ Len(ledger) = 1

---------------------------------------------------------------------------
(* C12, C13, C14: the sections of a migration file *)

\* the match at position i is a marker on a line of its own: whitespace, which
\* holds the line ends, or an end of the file is on either side of it
IsolatedAt(toks, i) ==
  /\ IsMarker(toks[i])
  /\ i = 1 \/ toks[i - 1] = "ws"
  /\ i = Len(toks) \/ toks[i + 1] = "ws"

IsolatedMarkers(toks) == {i \in 1..Len(toks) : IsolatedAt(toks, i)}

HasMarker(toks, m) == \E i \in IsolatedMarkers(toks) : toks[i] = m

\* the text between the first marker m and the next marker or the end of the
\* file, without the whitespace around it
MarkerSection(toks, m) ==
  LET i == CHOOSE k \in IsolatedMarkers(toks) :
              toks[k] = m /\ \A j \in IsolatedMarkers(toks) : toks[j] = m => k <= j
      later == {j \in IsolatedMarkers(toks) : j > i}
      e == IF later = {} THEN Len(toks)
           ELSE (CHOOSE j \in later : \A k \in later : j <= k) - 1
  IN TrimToks(SubSeq(toks, i + 1, e))

\* C12: for every migration file that contains no isolated DOWN marker line,
\* extracting the DOWN section fails with the missing-section error, so that
\* migrateDown on such a rollback target executes no SQL and leaves the ledger
\* unchanged, also when the file holds a comment beginning '-- Down...'.
C12_NoDownMarkerFails ==
  \A r \in runners :
     (/\ DownDone(r) /\ NoCommandFailed(r)
      /\ run[r].cur \in dir
      /\ ~HasMarker(content[run[r].cur], "--DOWN")) =>
        /\ run[r].result = "ValidationError" /\ run[r].failedAt = "nodown"
        /\ run[r].evLog = <<>>
        /\ ledger = run[r].startLedger

\* C13: for every migration file that contains an UP marker, the SQL executed
\* for direction UP is exactly the text between the UP marker and the next
\* marker (or end of file), also when a comment such as '-- Update ...'
\* precedes or sits inside the UP section.
C13_UpSectionExact ==
  \A r \in runners : \A i \in 1..Len(run[r].evLog) :
     LET e == run[r].evLog[i]
     IN (/\ e.kind = "sql" /\ e.direction = "up"
         /\ e.file \in dir
         /\ HasMarker(content[e.file], "--UP")) =>
           e.sql = MarkerSection(content[e.file], "--UP")

\* C14: for every migration file that contains no UP marker, the UP section is
\* the entire file content (a DOWN section included), and migrateUp, its
\* commands succeeding, executes that whole content and records the version.
C14_WholeFileIsUp ==
  \A r \in runners :
     (/\ UpDone(r) /\ NoCommandFailed(r)
      /\ \A f \in Range(run[r].pending) :
            /\ f \in dir
            /\ ~HasMarker(content[f], "--UP")
            /\ TrimToks(content[f]) # <<>>) =>
        /\ run[r].result = "ok"
        /\ Len(run[r].evLog) = 2 * Len(run[r].pending)
        /\ \A i \in 1..Len(run[r].pending) :
              /\ run[r].evLog[2 * i - 1].kind = "sql"
              /\ run[r].evLog[2 * i - 1].sql = TrimToks(content[run[r].pending[i]])
              /\ VersionOf(run[r].pending[i]) \in Range(ledger)

---------------------------------------------------------------------------
(* C15: the temp file of a migration attempt *)

\* process r is between the first and the last command of a migration attempt
InAttempt(r) == run[r].pc \in {"exec", "insert", "verify", "delete"}

---------------------------------------------------------------------------
(* C16: migrateDown on an empty ledger *)

\* a finished migrateDown that read an empty ledger
DownOnEmptyLedger(r) ==
  /\ DownDone(r) /\ NoCommandFailed(r)
  /\ run[r].startLedger = <<>>

\* C16: migrateDown invoked when the ledger has no applied versions is a no-op:
\* it executes no migration SQL, touches no migration file and writes no temp
\* file, leaves the ledger empty and the schema as it was, and returns
\* normally; its only commands are the two of the ledger read.
C16_EmptyLedgerNoOp ==
  \A r \in runners :
     DownOnEmptyLedger(r) =>
        /\ run[r].result = "ok"
        /\ run[r].evLog = <<>>
        /\ run[r].ncmd = 2
        /\ run[r].cur = <<>> /\ DOMAIN temp = {}
        /\ ledger = <<>>
        /\ schema = run[r].startSchema

\* the rollback found nothing applied, once in a directory without files and
\* once behind a rollback that had emptied the ledger
C16_Witness ==
  \E r \in runners :
     /\ DownOnEmptyLedger(r) /\ run[r].result = "ok"
     /\ dir = {}
     /\ prev[r].op = "down" /\ prev[r].result = "ok"
     /\ Len(prev[r].startLedger) = 1

---------------------------------------------------------------------------
(* C17: two concurrent migrateUp runs *)

\* the migrateUp run of process r executed the UP SQL of file f and recorded
\* its version behind it
AppliedInRun(r, f) ==
  /\ run[r].op = "up"
  /\ \E i \in 1..Len(run[r].evLog) : \E j \in 1..Len(run[r].evLog) :
        /\ i < j
        /\ run[r].evLog[i].kind = "sql" /\ run[r].evLog[i].file = f
        /\ run[r].evLog[i].direction = "up"
        /\ run[r].evLog[j].kind = "insert" /\ run[r].evLog[j].file = f

\* C17: two migrateUp invocations running concurrently against the same
\* database are not excluded from one another: both can read the ledger before
\* either records, so the UP SQL of the same migration can be executed twice;
\* whenever both runs applied the same migration, the ledger holds exactly one
\* row of its version.
C17_TwiceExecutedOnceRecorded ==
  \A f \in FileNames :
     (\A r \in runners : AppliedInRun(r, f)) =>
        /\ Count(ledger, VersionOf(f)) = 1
        /\ f \in schema

\* both runs found the file pending, both executed its UP SQL and recorded it
C17_Witness ==
  \E f \in FileNames :
     /\ \A r \in runners :
           /\ UpDone(r) /\ run[r].result = "ok"
           /\ run[r].startLedger = <<>> /\ run[r].pending = <<f>>
           /\ AppliedInRun(r, f)
     /\ ledger = <<VersionOf(f)>>

---------------------------------------------------------------------------
(* C18: the temp file path of concurrent attempts *)

\* C18: the temp SQL file is private per invocation and never shared: two
\* migration attempts running at the same time, in two CLI processes with the
\* same working directory, never write, execute or delete the same temp file
\* path.
C18_TempFilePrivate ==
  \A r \in runners : \A q \in runners \ {r} :
     (InAttempt(r) /\ InAttempt(q)) => run[r].tempFile # run[q].tempFile

---------------------------------------------------------------------------
(* C19: a run that ends between the UP SQL and the ledger INSERT *)

\* the finished operation p was a migrateUp that ended after the UP SQL of
\* p.cur had executed and before its version was recorded: the INSERT failed,
\* or the process was interrupted while the INSERT was due
EndedBeforeRecord(p) ==
  /\ p.op = "up"
  /\ p.pc \in {"done", "killed"}
  /\ p.failedAt = "insert"

\* the operation s got the list of applied versions
PastRead(s) ==
  /\ s.pc \notin {"ensure", "select"}
  /\ s.failedAt \notin {"ensure", "select"}

\* C19: if a run is interrupted, or the ledger INSERT fails, after a
\* migration's UP SQL executed successfully and before its version is
\* recorded, the ledger lacks that version although the schema change is
\* applied, and the next migrateUp finds the migration pending and executes
\* the same UP SQL again.
C19_SqlRunsAgain ==
  \A r \in runners :
     LET p == prev[r]
         s == run[r]
     IN (EndedBeforeRecord(p) /\ s.op = "up") =>
           /\ VersionOf(p.cur) \notin Range(s.startLedger)
           /\ p.cur \in s.startSchema
           /\ (PastRead(s) /\ p.cur \in Range(s.allMigrations)) =>
                 /\ s.pending # <<>> /\ s.pending[1] = p.cur
                 /\ s.evLog # <<>> =>
                       /\ s.evLog[1].kind = "sql" /\ s.evLog[1].direction = "up"
                       /\ s.evLog[1].file = p.cur
                       /\ p.cur \in dir =>
                             s.evLog[1].sql = ExtractSection(content[p.cur], "up").sql
                 /\ (s.pc = "done" /\ s.result = "ok") => s.evLog # <<>>

\* the run was interrupted while the INSERT was due, and the next migrateUp
\* executed the UP SQL once more and recorded the version
C19_Witness ==
  \E r \in runners :
     /\ EndedBeforeRecord(prev[r]) /\ prev[r].pc = "killed"
     /\ UpDone(r) /\ run[r].result = "ok"
     /\ prev[r].cur \in run[r].startSchema
     /\ run[r].evLog # <<>>
     /\ run[r].evLog[1].kind = "sql" /\ run[r].evLog[1].file = prev[r].cur
     /\ VersionOf(prev[r].cur) \in Range(ledger)

---------------------------------------------------------------------------
(* C20: the Command Executor *)

\* every step that ends a command of process r: the command failed for the
\* caller exactly if the external process reported an error, and then with a
\* DatabaseError at that command; output on stderr with status 0 lets the
\* caller go on to its next command
ExecutorStep ==
  \A r \in runners :
     (run[r].pc \in CommandStages /\ run'[r] # run[r]) =>
        LET out == run'[r].lastOut
        IN /\ out.error <=>
                /\ run'[r].pc = "done"
                /\ run'[r].result = "DatabaseError"
                /\ run'[r].failedAt = run[r].pc
           /\ ~out.error => run'[r].failedAt \notin CommandStages
           /\ (~out.error /\ out.stderr) =>
                 /\ run'[r].pc \in CommandStages
                 /\ run'[r].ncmd = run[r].ncmd + 1

\* C20: the Command Executor rejects with a DatabaseError exactly when the
\* external process reports an error such as a non-zero exit status; a zero
\* exit status with non-empty stderr is only a warning and resolves with
\* stdout, so the calling operation continues.
C20_FailsExactlyOnError == [][ExecutorStep]_vars

\* the ensure-table command wrote a NOTICE to stderr, ended with status 0, and
\* the operation went on to its SELECT command
C20_Witness ==
  \E r \in runners :
     /\ run[r].pc = "select"
     /\ run[r].lastOut = [error |-> FALSE, stderr |-> TRUE]
     /\ run[r].ncmd = 2

----------------------------------------------------------------------------
(* C22: status and debug only report *)

\* a step of a process that runs migrate:status or migrate:debug
ReportingStep(r) ==
  /\ run'[r] # run[r]
  /\ run'[r].op \in {"status", "debug"}

\* the ledger versions of rows that no file of fs has
VersionsWithoutFile(fs, rows) ==
  {v \in Range(rows) : \A f \in Range(fs) : VersionOf(f) # v}

\* the files of fs whose version is not in rows
FilesNotApplied(fs, rows) == {f \in Range(fs) : VersionOf(f) \notin Range(rows)}

ReportsOnly ==
  \A r \in runners :
     ReportingStep(r) =>
        /\ run'[r].evLog = <<>>
        /\ ledger' = ledger /\ schema' = schema
        /\ dir' = dir /\ content' = content
        /\ (run'[r].op = "debug" /\ run'[r].pc = "done" /\ run'[r].result = "ok") =>
              /\ Range(run'[r].report.orphanedRecords)
                   = VersionsWithoutFile(run'[r].allMigrations, ledger)
              /\ Range(run'[r].report.orphanedFiles)
                   = FilesNotApplied(run'[r].allMigrations, ledger)

\* C22: no step of migrate:status or migrate:debug executes migration SQL or
\* changes the ledger rows, the schema or the migration files; a debug that
\* ends normally reports as orphaned records exactly the ledger versions
\* without a file and as orphaned files exactly the files not in the ledger.
C22_ReportingOnly == [][ReportsOnly]_vars

\* a debug reported an applied version without file next to a file not applied
C22_Witness ==
  \E r \in runners :
     /\ run[r].op = "debug" /\ run[r].pc = "done" /\ run[r].result = "ok"
     /\ run[r].report.orphanedRecords # <<>>
     /\ run[r].report.orphanedFiles # <<>>

----------------------------------------------------------------------------
(* C23: the rollback target follows version order, not insertion order *)

\* the last row of the ledger, the version applied most recently, is not the
\* greatest one and was applied by the migrateUp that ran before this rollback
AppliedOutOfOrder(r) ==
  /\ DownDone(r) /\ NoCommandFailed(r)
  /\ prev[r].op = "up" /\ prev[r].result = "ok"
  /\ run[r].startLedger # <<>>
  /\ run[r].startLedger[Len(run[r].startLedger)] # GreatestVersion(run[r].startLedger)
  /\ \E f \in Range(prev[r].pending) :
        VersionOf(f) = run[r].startLedger[Len(run[r].startLedger)]
  /\ \E f \in FilesOfVersion(r, GreatestVersion(run[r].startLedger)) :
        f \in dir /\ ExtractSection(content[f], "down").err = "none"

\* C23: when the version applied most recently by migrateUp is smaller than
\* the greatest applied version, the following migrateDown rolls back the
\* greatest version and keeps the one applied most recently.
C23_TargetByVersionOrder ==
  \A r \in runners :
     AppliedOutOfOrder(r) =>
        LET g == GreatestVersion(run[r].startLedger)
            last == run[r].startLedger[Len(run[r].startLedger)]
        IN /\ run[r].result = "ok"
           /\ SqlFiles(run[r].evLog) # <<>>
           /\ \A i \in 1..Len(run[r].evLog) : VersionOf(run[r].evLog[i].file) = g
           /\ g \notin Range(ledger)
           /\ last \in Range(ledger)

C23_Witness ==
  \E r \in runners : AppliedOutOfOrder(r) /\ run[r].result = "ok"

----------------------------------------------------------------------------
(* C26: the summary of the status report *)

\* the number of files the status report lists as applied (b) or pending (~b)
Listed(r, b) ==
  Cardinality({i \in 1..Len(run[r].report.listed) : run[r].report.listed[i].applied = b})

\* C26 (as stated): the pending count of the summary is the number of files
\* listed as Pending and the applied count the number of files listed as
\* Applied, whatever the files and the ledger are; the pending count is never
\* negative.
C26_SummaryCountsListedFiles ==
  \A r \in runners :
     (/\ run[r].op = "status" /\ run[r].pc = "done" /\ run[r].result = "ok"
      /\ run[r].report.kind = "status") =>
        /\ run[r].report.pendingCount = Listed(r, FALSE)
        /\ run[r].report.appliedCount = Listed(r, TRUE)
        /\ run[r].report.pendingCount >= 0

----------------------------------------------------------------------------
(* C27: migrateUp is idempotent *)

\* a migrateUp that follows a migrateUp which ended normally
SecondUp(r) ==
  /\ run[r].op = "up" /\ run[r].pc # "idle"
  /\ prev[r].op = "up" /\ prev[r].result = "ok" /\ prev[r].pc = "done"

\* C27: a migrateUp that follows a successful migrateUp executes no migration
\* SQL and writes nothing to the ledger, which stays as the first run left it;
\* when its two read commands succeed it ends normally with nothing pending.
C27_SecondUpDoesNothing ==
  \A r \in runners :
     SecondUp(r) =>
        /\ run[r].evLog = <<>>
        /\ ledger = run[r].startLedger
        /\ schema = run[r].startSchema
        /\ (run[r].pc = "done" /\ NoCommandFailed(r)) =>
              /\ run[r].result = "ok"
              /\ run[r].pending = <<>>
              /\ run[r].ncmd = 2

\* the first run had applied files, the second one ended normally
C27_Witness ==
  \E r \in runners :
     /\ SecondUp(r) /\ run[r].pc = "done" /\ run[r].result = "ok"
     /\ Len(prev[r].pending) >= 2 /\ Len(ledger) >= 2

----------------------------------------------------------------------------
(* C24: the listing of the migration files *)

\* name ends with the four characters of '.sql'
HasSqlExtension(name) ==
  Len(name) >= Len(DotSql) /\ SubSeq(name, Len(name) - Len(DotSql) + 1, Len(name)) = DotSql

\* seq holds exactly the entries of d with the extension, each once, ascending
IsListingOf(seq, d) ==
  /\ Range(seq) = {f \in d : HasSqlExtension(f)}
  /\ \A i \in 1..Len(seq) : \A j \in 1..Len(seq) : i < j => StrLess(seq[i], seq[j])

\* process r calls getMigrationFiles in this step: migrateUp when it starts,
\* migrateDown once it has read a non-empty ledger
Lists(r) ==
  \/ /\ run[r].pc \in {"idle", "done", "killed"}
     /\ run'[r].pc = "ensure" /\ run'[r].op = "up"
  \/ /\ run[r].pc = "select" /\ run[r].op = "down"
     /\ run'[r].pc # "select" /\ ~run'[r].lastOut.error
     /\ ledger # <<>>

ListsSqlEntriesSorted ==
  \A r \in runners :
     Lists(r) =>
        /\ IsListingOf(run'[r].allMigrations, dir)
        /\ dirExists' /\ dir' = dir
        /\ ~dirExists => run'[r].allMigrations = <<>>
        /\ run'[r].failedAt \notin {"list", "mkdir"}

\* C24: getMigrationFiles returns exactly the entries of the directory whose
\* name ends with '.sql', in ascending lexicographic order; when the directory
\* does not exist the call creates it and returns the empty sequence without
\* an error.
C24_ListsSqlEntriesSorted == [][ListsSqlEntriesSorted]_vars

\* a listing of two migration files from a directory that holds another entry
C24_Witness ==
  \E r \in runners :
     /\ run[r].op = "up" /\ run[r].pc = "ensure"
     /\ Len(run[r].allMigrations) = 2
     /\ Cardinality(dir) = 3

----------------------------------------------------------------------------
(* C25: the version of a migration file *)

\* the filename without its last four characters, the extension
Stem(file) == SubSeq(file, 1, Len(file) - Len(DotSql))

\* C25 (as stated): the version written to the ledger, used to compute the
\* pending files and looked up by the rollback is the filename without its
\* trailing '.sql', also for a filename that contains '.sql' before its
\* extension; so every applied file has its own ledger row.
C25_VersionIsStem ==
  \A r \in runners :
     /\ (run[r].op = "up" /\ run[r].pc \in {"exec", "insert", "verify", "done"}
         /\ ~run[r].readFailed) =>
           /\ run[r].pending
                = LET NotIn(f) == Stem(f) \notin Range(run[r].startLedger)
                  IN SelectSeq(run[r].allMigrations, NotIn)
           /\ (UpDone(r) /\ run[r].result = "ok") =>
                 \A f \in Range(run[r].pending) : Stem(f) \in Range(ledger)
     /\ (DownDone(r) /\ run[r].result = "ok" /\ run[r].evLog # <<>>) =>
           Stem(run[r].evLog[1].file) = GreatestVersion(run[r].startLedger)

----------------------------------------------------------------------------
(* C28: successive rollbacks *)

\* the number of migrateDown invocations that have ended
DownsEnded ==
  MaxDownInvocations - invLeft
    - Cardinality({r \in runners : run[r].pc \notin {"idle", "done", "killed"}})

\* the versions rolled back so far are the greatest ones: no version still
\* applied is greater than one rolled back, and the schema follows the ledger
GreatestRolledBack ==
  LET all == {VersionOf(f) : f \in dir}
  IN /\ Range(ledger) \subseteq all
     /\ \A v \in Range(ledger) : \A w \in all \ Range(ledger) : StrLess(v, w)
     /\ Cardinality(dir) - Len(ledger) <= DownsEnded + 1

\* C28: from a ledger of k versions whose files exist with non-empty DOWN
\* sections, every migrateDown whose commands succeed rolls back the greatest
\* version still applied, so that the versions go in strictly descending
\* order; when the invocations before it all succeeded too, the k-th one
\* leaves the ledger and the schema empty and a further one is a no-op.
C28_DescendingToEmpty ==
  /\ GreatestRolledBack
  /\ \A r \in runners :
        (DownDone(r) /\ NoCommandFailed(r)) =>
           /\ run[r].result = "ok"
           /\ IF run[r].startLedger = <<>>
              THEN run[r].evLog = <<>> /\ ledger = <<>>
              ELSE /\ Range(ledger)
                        = Range(run[r].startLedger) \ {GreatestVersion(run[r].startLedger)}
                   /\ Len(ledger) = Len(run[r].startLedger) - 1
                   /\ SqlFiles(run[r].evLog) # <<>>
                   /\ \A i \in 1..Len(run[r].evLog) :
                         /\ run[r].evLog[i].direction = "down"
                         /\ VersionOf(run[r].evLog[i].file)
                              = GreatestVersion(run[r].startLedger)
           /\ schema = {f \in dir : VersionOf(f) \in Range(ledger)}
           /\ (Len(run[r].startLedger) + DownsEnded - 1 = Cardinality(dir)
               /\ DownsEnded >= Cardinality(dir)) =>
                 ledger = <<>> /\ schema = {}

\* three versions were rolled back by three invocations, the fourth found nothing
C28_Witness ==
  \E r \in runners :
     /\ DownDone(r) /\ run[r].result = "ok" /\ NoCommandFailed(r)
     /\ Cardinality(dir) = 3 /\ DownsEnded = 4
     /\ run[r].startLedger = <<>> /\ run[r].evLog = <<>>
     /\ prev[r].op = "down" /\ prev[r].result = "ok" /\ Len(prev[r].startLedger) = 1

----------------------------------------------------------------------------
(* C21: the dispatch of main and the exit status *)

\* the process r has ended
Ended(r) == run[r].pc = "done"

\* process r changed nothing and ran no command
DidNothing(r) ==
  /\ run[r].ncmd = 0 /\ run[r].evLog = <<>>
  /\ ledger = run[r].startLedger /\ schema = run[r].startSchema
  /\ tableExists = run[r].startTable

\* C21: without an operation main prints the usage, runs nothing and the
\* process ends with status 0; an unknown operation gives an error, the usage
\* and status 1; create and seed without entity, and every operation that
\* throws, end with status 1, every operation that returns with status 0;
\* 'migrate' and 'migrate:up' both run migrateUp.
C21_DispatchAndExit ==
  \A r \in runners :
     LET operation == run[r].argv[1]
         entity == run[r].argv[2]
     IN /\ (run[r].pc # "idle" /\ operation \in {"migrate", "migrate:up"}) =>
              run[r].op = "up"
        /\ (run[r].pc # "idle" /\ ~Ended(r)) => run[r].exit = -1
        /\ Ended(r) =>
              /\ operation = "" =>
                    run[r].usage /\ run[r].exit = 0 /\ DidNothing(r)
              /\ operation \notin CliOperations \cup {""} =>
                    /\ run[r].usage /\ run[r].exit = 1 /\ DidNothing(r)
                    /\ run[r].result = "ValidationError"
              /\ (operation \in {"create", "seed"} /\ entity = "") =>
                    /\ run[r].exit = 1 /\ DidNothing(r)
                    /\ run[r].result = "ValidationError"
              /\ operation \in CliOperations => ~run[r].usage
              /\ run[r].exit = IF run[r].result = "ok" THEN 0 ELSE 1

\* an unknown operation was given
C21_Witness ==
  \E r \in runners :
     /\ Ended(r) /\ run[r].argv[1] = "serve"
     /\ run[r].usage /\ run[r].exit = 1

----------------------------------------------------------------------------
(* C29: clean and reset drop the ledger *)

\* clean or reset has ended normally
Cleaned(s) == s.op \in {"clean", "reset"} /\ s.pc = "done" /\ s.result = "ok"

\* C29: when clean or reset has ended normally the ledger table is gone with
\* its rows; the migrateUp that follows finds every migration file pending
\* and, its commands succeeding, executes the UP section of every file in the
\* order of the listing and records every version.
C29_CleanedThenAllPending ==
  \A r \in runners :
     /\ Cleaned(run[r]) => ledger = <<>> /\ ~tableExists
     /\ (Cleaned(prev[r]) /\ run[r].op = "up" /\ run[r].pc # "idle") =>
           /\ run[r].startLedger = <<>> /\ ~run[r].startTable
           /\ (run[r].pc \in {"exec", "insert", "verify"}
               \/ (UpDone(r) /\ NoCommandFailed(r))) =>
                 run[r].pending = run[r].allMigrations
           /\ (UpDone(r) /\ NoCommandFailed(r)) =>
                 /\ run[r].result = "ok"
                 /\ run[r].evLog
                      = UpLog(run[r].allMigrations, Len(run[r].allMigrations), content)
                 /\ Range(ledger) = {VersionOf(f) : f \in dir}
                 /\ Len(ledger) = Cardinality(dir)

\* two files were applied, the database was cleaned, the two were applied again
C29_Witness ==
  \E r \in runners :
     /\ Cleaned(prev[r]) /\ prev[r].op = "clean" /\ Len(prev[r].startLedger) = 2
     /\ UpDone(r) /\ run[r].result = "ok"
     /\ Len(run[r].evLog) = 4 /\ Len(ledger) = 2

----------------------------------------------------------------------------
(* C30: setup creates before it seeds, reset drops before it sets up *)

\* the schema files of foods, users and recipes, then their seed files
AllCreatedThenSeeded ==
  <<AdminEvent("create", "foods"), AdminEvent("create", "users"),
    AdminEvent("create", "recipes"), AdminEvent("seed", "foods"),
    AdminEvent("seed", "users"), AdminEvent("seed", "recipes")>>

\* the files setup executes for its argument, in order
SetupOf(entity) ==
  CASE entity \in {"", "all"} -> AllCreatedThenSeeded
    [] entity \in {"foods", "users", "recipes"} ->
         <<AdminEvent("create", entity), AdminEvent("seed", entity)>>
    [] OTHER -> <<>>

\* what reset does: the drop, then the setup of all entities
ResetAll == <<AdminEvent("dropschema", "public")>> \o AllCreatedThenSeeded

IsPrefix(a, b) == Len(a) <= Len(b) /\ a = SubSeq(b, 1, Len(a))

\* C30: what setup has executed is at every moment a beginning of: the schema
\* files in declaration order, then the seed files; so no seed file runs
\* before every schema file has, and none after a failure.  For reset it is a
\* beginning of: the drop of the schema public, then the setup of all; a
\* failed drop leaves everything as it was.  The operation ends normally
\* exactly when it has executed all of it.
C30_CreateBeforeSeed ==
  \A r \in runners :
     /\ (run[r].op = "setup" /\ run[r].pc # "idle") =>
           /\ IsPrefix(run[r].evLog, SetupOf(run[r].argv[2]))
           /\ Ended(r) =>
                 ((run[r].result = "ok") = (run[r].evLog = SetupOf(run[r].argv[2])))
     /\ (run[r].op = "reset" /\ run[r].pc # "idle") =>
           /\ IsPrefix(run[r].evLog, ResetAll)
           /\ Ended(r) => ((run[r].result = "ok") = (run[r].evLog = ResetAll))
           /\ (Ended(r) /\ run[r].failedAt = "dropschema") =>
                 /\ run[r].evLog = <<>>
                 /\ ledger = run[r].startLedger /\ schema = run[r].startSchema
                 /\ tableExists = run[r].startTable

\* a setup of all entities stopped at the schema file of recipes
C30_Witness ==
  \E r \in runners :
     /\ run[r].op = "setup" /\ Ended(r) /\ run[r].result = "DatabaseError"
     /\ run[r].failedAt = "create" /\ Len(run[r].evLog) = 2
     /\ "recipes" \notin created /\ seeded = {}

====
